---- MODULE Spec2Model ----
(***************************************************************************)
(* Model of PredictMixin (datarobot_drum/resource/predict_mixin.py): the   *)
(* predict, transform and predict-unstructured request handlers shared by  *)
(* the DRUM prediction servers.                                            *)
(*                                                                         *)
(* One behaviour is one deployed model (its target type is fixed at        *)
(* construction) answering one HTTP request.  Each handler is one action;  *)
(* the request and what the predictor returns are the action's inputs.     *)
(***************************************************************************)
EXTENDS Integers, Sequences, FiniteSets, TLC

VARIABLES
    target_type,    \* self._target_type
    endpoint,       \* the handler that answered the request ("idle" before)
    request,        \* flask.request: files, data, content_type, args
    predictor_ret,  \* what self._predictor returned to the handler
    frame,          \* the handler's local variables when it returned
    trace,          \* the handler's reads and calls, in program order
    response        \* what the handler returned: body/Response and status

vars == <<target_type, endpoint, request, predictor_ret, frame, trace, response>>

----------------------------------------------------------------------------
(* Bounds of the model *)

\* longest byte string of a file part or of the raw body
MaxLen == 1
\* most rows of a predictor's tabular result
MaxRows == 2
\* most columns of a predictor's tabular result
MaxCols == 2

----------------------------------------------------------------------------
(* Python values *)

\* None where a string is expected (mimetype, charset, header)
NoneStr == "<None>"
\* None where an object is expected (a file part, a result, a payload)
None == [type |-> "NoneType"]

HTTP_200_OK == 200
HTTP_422_UNPROCESSABLE_ENTITY == 422

\* TargetType members (TRANSFORM and UNSTRUCTURED are the ones the code tests)
TargetTypes == {"regression", "binary", "unstructured", "transform"}
TRANSFORM == "transform"
UNSTRUCTURED == "unstructured"

REGRESSION_PRED_COLUMN == "Predictions"
X_TRANSFORM_KEY == "X.transformed"
Y_TRANSFORM_KEY == "y.transformed"
APPLICATION_JSON == "application/json"
APPLICATION_OCTET_STREAM == "application/octet-stream"

Range(s) == {s[i] : i \in 1..Len(s)}

\* byte strings of at most n bytes (their content is never inspected: one byte value)
BytesUpTo(n) == UNION {[1..k -> {120}] : k \in 0..n}

----------------------------------------------------------------------------
(* The request *)

\* file names of an uploaded part: the three supported extensions and another
FileNames == {"data.csv", "data.mtx", "data.arrow", "data.bin"}

FileStorage == [filename : FileNames, stream : BytesUpTo(MaxLen)]

\* Content-Type headers of a request (NoneStr: no header)
ContentTypes ==
    {NoneStr, "text/csv", "text/csv; charset=utf-8", "text/plain; format=flowed",
     "multipart/form-data; boundary=b"}

\* werkzeug.http.parse_options_header on the headers above
parse_options_header(header) ==
    CASE header = NoneStr -> [mimetype |-> "", params |-> {}]
      [] header = "text/csv" -> [mimetype |-> "text/csv", params |-> {}]
      [] header = "text/csv; charset=utf-8" ->
            [mimetype |-> "text/csv", params |-> {<<"charset", "utf-8">>}]
      [] header = "text/plain; format=flowed" ->
            [mimetype |-> "text/plain", params |-> {<<"format", "flowed">>}]
      [] header = "multipart/form-data; boundary=b" ->
            [mimetype |-> "multipart/form-data", params |-> {<<"boundary", "b">>}]

\* dict.get(key) of the header's parameters
params_get(params, key) ==
    IF \E p \in params : p[1] = key
    THEN (CHOOSE p \in params : p[1] = key)[2]
    ELSE NoneStr

\* request.files.get(key)
files_get(req, key) == IF key \in DOMAIN req.files THEN req.files[key] ELSE None

_validate_content_type_header(header) ==
    LET parsed == parse_options_header(header)
        ret_mimetype == parsed.mimetype
        ret_charset == params_get(parsed.params, "charset")
    IN  <<ret_mimetype, ret_charset>>

\* StructuredInputReadUtils.resolve_mimetype_by_filename: extension -> mimetype
resolve_mimetype_by_filename(filename) ==
    CASE filename = "data.csv" -> "text/csv"
      [] filename = "data.mtx" -> "text/mtx"
      [] filename = "data.arrow" -> "application/x.apache.arrow.stream"
      [] OTHER -> NoneStr

wrong_key_error_message(file_key) ==
    <<"Samples should be provided as a csv, mtx, or arrow file under form-data param key",
      file_key, "or as binary data">>

\* the result of a call: a returned value or a raised exception
Return(v) == [raised |-> FALSE, value |-> v]
Raise(exc, msg) == [raised |-> TRUE, exc |-> exc, msg |-> msg]

\* _fetch_data_from_request answering an empty request with empty data (the TODO
\* of line 60) instead of raising
_fetch_data_empty_ok(req, file_key) ==
    LET filestorage == files_get(req, file_key)
    IN  IF filestorage # None
        THEN Return(<<filestorage.stream,
                      resolve_mimetype_by_filename(filestorage.filename),
                      NoneStr>>)
        ELSE LET ct == _validate_content_type_header(req.content_type)
             IN  Return(<<req.data, ct[1], ct[2]>>)

\* _fetch_data_from_request with its two branches swapped: a non-empty raw body
\* wins over the file part
_fetch_data_body_first(req, file_key) ==
    LET filestorage == files_get(req, file_key)
    IN  IF Len(req.data) # 0
        THEN LET ct == _validate_content_type_header(req.content_type)
             IN  Return(<<req.data, ct[1], ct[2]>>)
        ELSE IF filestorage # None
        THEN Return(<<filestorage.stream,
                      resolve_mimetype_by_filename(filestorage.filename),
                      NoneStr>>)
        ELSE Raise("ValueError", wrong_key_error_message(file_key))

_fetch_data_from_request(req, file_key) ==
    LET filestorage == files_get(req, file_key)
    IN  IF filestorage # None
        THEN Return(<<filestorage.stream,
                      resolve_mimetype_by_filename(filestorage.filename),
                      NoneStr>>)
        ELSE IF Len(req.data) # 0
        THEN LET ct == _validate_content_type_header(req.content_type)
             IN  Return(<<req.data, ct[1], ct[2]>>)
        ELSE Raise("ValueError", wrong_key_error_message(file_key))

----------------------------------------------------------------------------
(* Tabular results and their JSON serialisation (pandas) *)

\* column labels a predictor may use: the regression label and two class labels
ColNames == {"Predictions", "yes", "no"}

\* sequences of distinct column labels, at most n of them
ColumnSeqs(n) ==
    {cs \in UNION {[1..k -> ColNames] : k \in 0..n} :
        \A i, j \in 1..Len(cs) : cs[i] = cs[j] => i = j}

\* the row whose cell in column j is 10 * b + j
RowOf(b, ncols) == [j \in 1..ncols |-> 10 * b + j]

Dtypes == {"float32", "float64"}

\* the DataFrames a predictor may return
DataFrames ==
    {[columns |-> cs, dtype |-> dt, data |-> [i \in 1..Len(bs) |-> RowOf(bs[i], Len(cs))]] :
        cs \in ColumnSeqs(MaxCols), dt \in Dtypes,
        bs \in UNION {[1..r -> {1, 2}] : r \in 0..MaxRows}}

\* DataFrame.astype("float")
astype_float(df) == [df EXCEPT !.dtype = "float64"]

ColumnIndex(df, col) == CHOOSE j \in 1..Len(df.columns) : df.columns[j] = col

\* DataFrame.__getitem__(col): the column as a Series, KeyError when there is none
getitem(df, col) ==
    IF col \in Range(df.columns)
    THEN Return([name |-> col, dtype |-> df.dtype,
                 data |-> [i \in 1..Len(df.data) |-> df.data[i][ColumnIndex(df, col)]]])
    ELSE Raise("KeyError", col)

\* Series.to_json(orient="records"): the flat array of the values, in row order
series_to_json(series) == series.data

\* DataFrame.to_json(orient="records"): one object per row, keyed by column label
frame_to_json(df) ==
    [i \in 1..Len(df.data) |->
        [c \in Range(df.columns) |-> df.data[i][ColumnIndex(df, c)]]]

\* flask.Response(data, mimetype=...): Content-Type is taken from the mimetype;
\* assigned: the headers set through response.headers[...] after construction
Response(data, mimetype) ==
    [data |-> data, mimetype |-> mimetype, headers |-> [ContentType |-> <<mimetype>>],
     assigned |-> {}]

\* flask.Response(data): the framework's default Content-Type
DefaultContentType == <<"text/html", "; charset=", "utf-8">>
ResponseDefault(data) ==
    [data |-> data, mimetype |-> "text/html", headers |-> [ContentType |-> DefaultContentType],
     assigned |-> {}]

\* `return {"message": "ERROR: " + msg}, HTTP_422_UNPROCESSABLE_ENTITY`
ErrorReturn(msg) ==
    Return([kind |-> "dict", body |-> [message |-> <<"ERROR: ", msg>>],
            status |-> HTTP_422_UNPROCESSABLE_ENTITY])

\* `return response, response_status` with a flask Response
ResponseReturn(resp, status) == Return([kind |-> "Response", body |-> resp, status |-> status])

\* the predictor was not called / was called with args and returned ret
NotCalled == [called |-> FALSE]
Called(method, args, ret) == [called |-> TRUE, method |-> method, args |-> args, ret |-> ret]

----------------------------------------------------------------------------
(* PredictMixin._predict *)

\* lines 90-103: the JSON text of a tabular result
encode_prediction(out_data) ==
    LET num_columns == Len(out_data.columns)
        casted == astype_float(out_data)
    IN  IF num_columns = 1
        THEN LET col == getitem(casted, REGRESSION_PRED_COLUMN)
             IN  IF col.raised THEN col
                 ELSE Return([predictions |-> series_to_json(col.value)])
        ELSE Return([predictions |-> frame_to_json(casted)])

\* _predict without the `return` of the except branch: the handler goes on with
\* an empty input after a failed fetch
_predict_no_return(self_target_type, req, out_data) ==
    LET fetched == _fetch_data_from_request(req, "X")
        args == IF fetched.raised
                THEN [binary_data |-> <<>>, mimetype |-> NoneStr, charset |-> NoneStr]
                ELSE [binary_data |-> fetched.value[1], mimetype |-> fetched.value[2],
                      charset |-> fetched.value[3]]
        encoded == IF self_target_type = UNSTRUCTURED
                   THEN Return(out_data)
                   ELSE encode_prediction(out_data)
    IN  [ret |-> IF encoded.raised THEN encoded
                 ELSE ResponseReturn(Response(encoded.value, APPLICATION_JSON),
                                     IF fetched.raised THEN HTTP_422_UNPROCESSABLE_ENTITY
                                     ELSE HTTP_200_OK),
         predictor |-> Called("predict", args, out_data),
         frame |-> [X |-> fetched],
         trace |-> <<"fetch:X", "predictor.predict">>]

_predict(self_target_type, req, out_data) ==
    LET fetched == _fetch_data_from_request(req, "X")
    IN  IF fetched.raised
        THEN [ret |-> ErrorReturn(fetched.msg),
              predictor |-> NotCalled,
              frame |-> [X |-> fetched],
              trace |-> <<"fetch:X">>]
        ELSE LET args == [binary_data |-> fetched.value[1], mimetype |-> fetched.value[2],
                          charset |-> fetched.value[3]]
                 encoded == IF self_target_type = UNSTRUCTURED
                            THEN Return(out_data)
                            ELSE encode_prediction(out_data)
             IN  [ret |-> IF encoded.raised THEN encoded
                          ELSE ResponseReturn(Response(encoded.value, APPLICATION_JSON),
                                              HTTP_200_OK),
                  predictor |-> Called("predict", args, out_data),
                  frame |-> [X |-> fetched],
                  trace |-> <<"fetch:X", "predictor.predict">>]

wrong_target_type_error_message(tt, ep) ==
    <<"This project has target type", tt, "use the endpoint", ep>>

do_predict(self_target_type, req, out_data) ==
    IF self_target_type = TRANSFORM
    THEN [ret |-> ErrorReturn(wrong_target_type_error_message(self_target_type, "transform")),
          predictor |-> NotCalled,
          frame |-> [rejected |-> TRUE],
          trace |-> <<"guard">>]
    ELSE LET r == _predict(self_target_type, req, out_data)
         IN  [r EXCEPT !.trace = <<"guard">> \o r.trace]

----------------------------------------------------------------------------
(* PredictMixin._transform *)

\* texts a client may send in the arrow_version part
ArrowVersionTexts == {"0.2", "0.14", "None", "1.0.0"}

\* Python's eval on those texts: a float, None, or a SyntaxError
eval(text) ==
    CASE text = "0.2" -> Return([type |-> "float", repr |-> "0.2"])
      [] text = "0.14" -> Return([type |-> "float", repr |-> "0.14"])
      [] text = "None" -> Return(None)
      [] OTHER -> Raise("SyntaxError", text)

\* what predictor.transform may return for the features and for the target
FeatureResults == [type : {"DataFrame", "csr_matrix"}, name : {"features"}]
TargetResults == [type : {"DataFrame", "csr_matrix"}, name : {"target"}] \cup {None}

\* transform_helpers
is_sparse(x) == x.type = "csr_matrix"
make_mtx_payload(x) == [encoding |-> "mtx", of |-> x]
make_csv_payload(x) == [encoding |-> "csv", of |-> x]
make_arrow_payload(x, arrow_version) ==
    [encoding |-> "arrow", of |-> x, arrow_version |-> arrow_version]

\* make_output testing use_arrow before the sparsity of the features
make_output_arrow_first(out_data, out_target, use_arrow, arrow_version) ==
    IF use_arrow
    THEN [feature_payload |-> make_arrow_payload(out_data, arrow_version),
          target_payload |->
              IF out_target # None
              THEN make_arrow_payload(out_target, arrow_version) ELSE None,
          out_format |-> "arrow"]
    ELSE IF is_sparse(out_data)
    THEN [target_payload |->
              IF out_target # None THEN make_csv_payload(out_target) ELSE None,
          feature_payload |-> make_mtx_payload(out_data),
          out_format |-> "sparse"]
    ELSE [feature_payload |-> make_csv_payload(out_data),
          target_payload |->
              IF out_target # None THEN make_csv_payload(out_target) ELSE None,
          out_format |-> "csv"]

\* lines 149-173, "make output"
make_output(out_data, out_target, use_arrow, arrow_version) ==
    IF is_sparse(out_data)
    THEN [target_payload |->
              IF use_arrow
              THEN (IF out_target # None
                    THEN make_arrow_payload(out_target, arrow_version) ELSE None)
              ELSE (IF out_target # None THEN make_csv_payload(out_target) ELSE None),
          feature_payload |-> make_mtx_payload(out_data),
          out_format |-> "sparse"]
    ELSE IF use_arrow
    THEN [feature_payload |-> make_arrow_payload(out_data, arrow_version),
          target_payload |->
              IF out_target # None
              THEN make_arrow_payload(out_target, arrow_version) ELSE None,
          out_format |-> "arrow"]
    ELSE [feature_payload |-> make_csv_payload(out_data),
          target_payload |->
              IF out_target # None THEN make_csv_payload(out_target) ELSE None,
          out_format |-> "csv"]

\* lines 175-192: the multipart fields
make_out_fields(out) ==
    LET out_fields == ("out.format" :> out.out_format) @@
                      (X_TRANSFORM_KEY :> <<X_TRANSFORM_KEY, out.feature_payload,
                                            APPLICATION_OCTET_STREAM>>)
    IN  IF out.target_payload # None
        THEN out_fields @@ (Y_TRANSFORM_KEY :> <<Y_TRANSFORM_KEY, out.target_payload,
                                                 APPLICATION_OCTET_STREAM>>)
        ELSE out_fields

\* requests_toolbelt.MultipartEncoder: the encoded body and its content type
MultipartEncoder(fields) ==
    [to_string |-> fields, content_type |-> "multipart/form-data; boundary=<boundary>"]

\* transform_call keeping the predictor's second result when there is no y part
transform_call_keep_target(req, feature, out_data, ret_target) ==
    IF "y" \in DOMAIN req.files
    THEN LET target == _fetch_data_from_request(req, "y")
         IN  [raised |-> FALSE, y |-> target,
              out_data |-> out_data, out_target |-> ret_target,
              predictor |-> Called("transform",
                  [binary_data |-> feature.value[1], mimetype |-> feature.value[2],
                   charset |-> feature.value[3],
                   target_binary_data |-> target.value[1],
                   target_mimetype |-> target.value[2],
                   target_charset |-> target.value[3]],
                  <<out_data, ret_target>>),
              trace |-> <<"files.keys", "fetch:y", "predictor.transform">>]
    ELSE [raised |-> FALSE, y |-> None,
          out_data |-> out_data, out_target |-> ret_target,
          predictor |-> Called("transform",
              [binary_data |-> feature.value[1], mimetype |-> feature.value[2],
               charset |-> feature.value[3]],
              <<out_data, ret_target>>),
          trace |-> <<"files.keys", "predictor.transform">>]

\* lines 126-147: the optional target and the predictor call
transform_call(req, feature, out_data, ret_target) ==
    IF "y" \in DOMAIN req.files
    THEN LET target == _fetch_data_from_request(req, "y")
         IN  IF target.raised
             THEN [raised |-> TRUE, msg |-> target.msg, y |-> target,
                   predictor |-> NotCalled, trace |-> <<"files.keys", "fetch:y">>]
             ELSE [raised |-> FALSE, y |-> target,
                   out_data |-> out_data, out_target |-> ret_target,
                   predictor |-> Called("transform",
                       [binary_data |-> feature.value[1], mimetype |-> feature.value[2],
                        charset |-> feature.value[3],
                        target_binary_data |-> target.value[1],
                        target_mimetype |-> target.value[2],
                        target_charset |-> target.value[3]],
                       <<out_data, ret_target>>),
                   trace |-> <<"files.keys", "fetch:y", "predictor.transform">>]
    ELSE [raised |-> FALSE, y |-> None,
          out_data |-> out_data, out_target |-> None,
          predictor |-> Called("transform",
              [binary_data |-> feature.value[1], mimetype |-> feature.value[2],
               charset |-> feature.value[3]],
              <<out_data, ret_target>>),
          trace |-> <<"files.keys", "predictor.transform">>]

\* lines 112-116: the arrow_version part
read_arrow_version(req) ==
    LET part == files_get(req, "arrow_version")
    IN  IF part # None THEN eval(part.stream) ELSE Return(None)

_transform(req, out_data, ret_target) ==
    LET arrow_version == read_arrow_version(req)
    IN  IF arrow_version.raised
        THEN [ret |-> arrow_version, predictor |-> NotCalled,
              frame |-> [arrow_version |-> arrow_version],
              trace |-> <<"files.get:arrow_version">>]
        ELSE
        LET use_arrow == arrow_version.value # None
            feature == _fetch_data_from_request(req, "X")
        IN  IF feature.raised
            THEN [ret |-> ErrorReturn(feature.msg), predictor |-> NotCalled,
                  frame |-> [arrow_version |-> arrow_version, use_arrow |-> use_arrow,
                             X |-> feature],
                  trace |-> <<"files.get:arrow_version", "fetch:X">>]
            ELSE
            LET call == transform_call(req, feature, out_data, ret_target)
            IN  IF call.raised
                THEN [ret |-> ErrorReturn(call.msg), predictor |-> NotCalled,
                      frame |-> [arrow_version |-> arrow_version, use_arrow |-> use_arrow,
                                 X |-> feature, y |-> call.y],
                      trace |-> <<"files.get:arrow_version", "fetch:X">> \o call.trace]
                ELSE
                LET out == make_output(call.out_data, call.out_target, use_arrow,
                                       arrow_version.value)
                    m == MultipartEncoder(make_out_fields(out))
                IN  [ret |-> ResponseReturn(Response(m.to_string, m.content_type),
                                            HTTP_200_OK),
                     predictor |-> call.predictor,
                     frame |-> [arrow_version |-> arrow_version, use_arrow |-> use_arrow,
                                X |-> feature, y |-> call.y,
                                out_data |-> call.out_data, out_target |-> call.out_target,
                                feature_payload |-> out.feature_payload,
                                target_payload |-> out.target_payload,
                                out_format |-> out.out_format],
                     trace |-> <<"files.get:arrow_version", "fetch:X">> \o call.trace]

\* correct_endpoint without the unstructured case
correct_endpoint_always_predict(self_target_type) == "predict"

\* lines 250-252: the endpoint a non-transform model is served on
correct_endpoint(self_target_type) ==
    IF self_target_type = UNSTRUCTURED THEN "predictUnstructured" ELSE "predict"

do_transform(self_target_type, req, out_data, ret_target) ==
    IF self_target_type # TRANSFORM
    THEN [ret |-> ErrorReturn(wrong_target_type_error_message(
                      self_target_type, correct_endpoint(self_target_type))),
          predictor |-> NotCalled,
          frame |-> [rejected |-> TRUE],
          trace |-> <<"guard">>]
    ELSE LET r == _transform(req, out_data, ret_target)
         IN  [r EXCEPT !.trace = <<"guard">> \o r.trace]

----------------------------------------------------------------------------
(* PredictMixin.do_predict_unstructured *)

\* what predictor.predict_unstructured may return: data and kwargs
UnstructuredData == {[type |-> "bytes", data |-> <<120>>], [type |-> "str", data |-> <<120>>]}
RetMimetypes == {NoneStr, "text/plain", "application/octet-stream"}
RetCharsets == {NoneStr, "utf-8", "latin1"}
UnstructuredRets == [data : UnstructuredData, mimetype : RetMimetypes, charset : RetCharsets]

\* unstructured_helpers._resolve_incoming_unstructured_data: text is decoded with
\* the charset when one is given, bytes are left untouched
_resolve_incoming_unstructured_data(data, mimetype, charset) ==
    <<IF charset # NoneStr
      THEN [type |-> "str", data |-> data]
      ELSE [type |-> "bytes", data |-> data],
      mimetype, charset>>

\* unstructured_helpers._resolve_outgoing_unstructured_data: the data with the
\* mimetype and the charset the predictor's kwargs carry, each possibly absent
_resolve_outgoing_unstructured_data(ret_data, ret_kwargs) ==
    <<ret_data, ret_kwargs.mimetype, ret_kwargs.charset>>

\* lines 225-228
make_kwargs_params(mimetype, charset, args) ==
    LET kwargs_params == ("mimetype" :> mimetype)
        with_charset == IF charset # NoneStr
                        THEN kwargs_params @@ ("charset" :> charset)
                        ELSE kwargs_params
    IN  with_charset @@ ("query" :> args)

\* make_unstructured_response testing the mimetype and the charset side by side
\* instead of nesting the charset test in the mimetype test
make_unstructured_response_flat(response_data, response_mimetype, response_charset) ==
    LET resp == ResponseDefault(response_data)
        content_type == IF response_mimetype # NoneStr THEN <<response_mimetype>> ELSE <<>>
        with_charset == IF response_charset # NoneStr
                        THEN content_type \o <<"; charset=", response_charset>>
                        ELSE content_type
    IN  IF with_charset # <<>>
        THEN [resp EXCEPT !.headers.ContentType = with_charset,
                          !.assigned = {"Content-Type"}]
        ELSE resp

\* lines 238-244
make_unstructured_response(response_data, response_mimetype, response_charset) ==
    LET resp == ResponseDefault(response_data)
    IN  IF response_mimetype # NoneStr
        THEN LET content_type == <<response_mimetype>>
                 with_charset == IF response_charset # NoneStr
                                 THEN content_type \o <<"; charset=", response_charset>>
                                 ELSE content_type
             IN  [resp EXCEPT !.headers.ContentType = with_charset,
                              !.assigned = {"Content-Type"}]
        ELSE resp

do_predict_unstructured(req, ret) ==
    LET data == req.data
        ct == _validate_content_type_header(req.content_type)
        incoming == _resolve_incoming_unstructured_data(data, ct[1], ct[2])
        kwargs_params == make_kwargs_params(incoming[2], incoming[3], req.args)
        ret_data == ret.data
        ret_kwargs == [mimetype |-> ret.mimetype, charset |-> ret.charset]
        outgoing == _resolve_outgoing_unstructured_data(ret_data, ret_kwargs)
    IN  [ret |-> ResponseReturn(
                     make_unstructured_response(outgoing[1], outgoing[2], outgoing[3]),
                     HTTP_200_OK),
         predictor |-> Called("predict_unstructured",
                              [data |-> incoming[1], kwargs |-> kwargs_params],
                              <<ret_data, ret_kwargs>>),
         frame |-> [response_data |-> outgoing[1], response_mimetype |-> outgoing[2],
                    response_charset |-> outgoing[3]],
         trace |-> <<"request.data", "request.content_type", "request.args",
                     "predictor.predict_unstructured">>]

----------------------------------------------------------------------------
(* The requests of the model *)

\* file parts of a request: X and y carry data, arrow_version carries a text
XParts == [filename : FileNames, stream : BytesUpTo(MaxLen)]
YParts == [filename : {"data.csv"}, stream : BytesUpTo(MaxLen)]
ArrowParts == [filename : {"arrow_version"}, stream : ArrowVersionTexts]

PartsOf(key) ==
    CASE key = "X" -> XParts
      [] key = "y" -> YParts
      [] key = "arrow_version" -> ArrowParts

\* all the multi-dicts of file parts over the given keys
FilesOver(keys) ==
    UNION {{f \in [ks -> XParts \cup YParts \cup ArrowParts] :
               \A k \in ks : f[k] \in PartsOf(k)} : ks \in SUBSET keys}

QueryArgs == {<<>>, <<<<"ret_mode", "binary">>>>}

RequestsOver(keys, args) ==
    [files : FilesOver(keys), data : BytesUpTo(MaxLen),
     content_type : ContentTypes, args : args]

PredictRequests == RequestsOver({"X"}, {<<>>})
TransformRequests == RequestsOver({"X", "y", "arrow_version"}, {<<>>})
UnstructuredRequests == RequestsOver({}, QueryArgs)

----------------------------------------------------------------------------
(* The state machine *)

Init ==
    /\ target_type \in TargetTypes
    /\ endpoint = "idle"
    /\ request = None
    /\ predictor_ret = NotCalled
    /\ frame = None
    /\ trace = <<>>
    /\ response = None

\* the handler's result becomes the state
Answer(name, req, r) ==
    /\ endpoint' = name
    /\ request' = req
    /\ predictor_ret' = r.predictor
    /\ frame' = r.frame
    /\ trace' = r.trace
    /\ response' = r.ret
    /\ UNCHANGED target_type

\* POST /predict/
PredictRequest ==
    /\ endpoint = "idle"
    /\ \E req \in PredictRequests, out_data \in DataFrames :
          Answer("do_predict", req, do_predict(target_type, req, out_data))

\* POST /transform/
TransformRequest ==
    /\ endpoint = "idle"
    /\ \E req \in TransformRequests, out_data \in FeatureResults, ret_target \in TargetResults :
          Answer("do_transform", req, do_transform(target_type, req, out_data, ret_target))

\* POST /predictUnstructured/
PredictUnstructuredRequest ==
    /\ endpoint = "idle"
    /\ \E req \in UnstructuredRequests, ret \in UnstructuredRets :
          Answer("do_predict_unstructured", req, do_predict_unstructured(req, ret))

Next == PredictRequest \/ TransformRequest \/ PredictUnstructuredRequest

Spec == Init /\ [][Next]_vars

----------------------------------------------------------------------------
(* Shapes of a handler's result *)

Returned == endpoint # "idle" /\ ~response.raised

\* the handler returned ({"message": "ERROR: " + detail}, 422)
IsError422(detail) ==
    /\ Returned
    /\ response.value.kind = "dict"
    /\ response.value.status = 422
    /\ response.value.body = [message |-> <<"ERROR: ", detail>>]

\* the handler returned (Response, 200)
IsResponse200 ==
    /\ Returned
    /\ response.value.kind = "Response"
    /\ response.value.status = 200

PredictorInvoked ==
    \/ predictor_ret.called
    \/ \E i \in 1..Len(trace) :
          trace[i] \in {"predictor.predict", "predictor.transform",
                        "predictor.predict_unstructured"}

\* the request offers the field neither as a file part nor as a raw body
NoInputFor(key) == key \notin DOMAIN request.files /\ Len(request.data) = 0

\* a request as Flask delivers it: file parts come from a multipart form, whose
\* body the form parser has consumed
AsFlaskDelivers ==
    \/ DOMAIN request.files = {}
    \/ /\ Len(request.data) = 0
       /\ request.content_type = "multipart/form-data; boundary=b"

MissingInputDetail(key) ==
    <<"Samples should be provided as a csv, mtx, or arrow file under form-data param key",
      key, "or as binary data">>

----------------------------------------------------------------------------
(* C1 *)

\* C1: whenever the fetch of X (or of y) is reached in the predict or transform
\* path and the request offers neither a file part nor a non-empty raw body for
\* it, the handler returns 422 with {"message": "ERROR: <detail>"} and the
\* predictor is not invoked.
C1_FetchFailureIs422 ==
    endpoint \in {"do_predict", "do_transform"} =>
        /\ ("fetch:X" \in Range(trace) /\ NoInputFor("X")) =>
              IsError422(MissingInputDetail("X")) /\ ~PredictorInvoked
        /\ ("fetch:y" \in Range(trace) /\ NoInputFor("y")) =>
              IsError422(MissingInputDetail("y")) /\ ~PredictorInvoked

\* a transform request with an arrow_version but without any input was answered 422
C1_Witness ==
    /\ endpoint = "do_transform"
    /\ "fetch:X" \in Range(trace)
    /\ NoInputFor("X")
    /\ "arrow_version" \in DOMAIN request.files
    /\ AsFlaskDelivers
    /\ IsError422(MissingInputDetail("X"))

----------------------------------------------------------------------------
(* C2 *)

\* the handler returned the wrong-endpoint error
IsGuardRejection ==
    /\ Returned
    /\ response.value.kind = "dict"
    /\ response.value.status = 422
    /\ response.value.body.message[2][1] = "This project has target type"

\* the endpoint a model of the given target type is served on
EndpointFor(tt) ==
    CASE tt = "transform" -> "transform"
      [] tt = "unstructured" -> "predictUnstructured"
      [] OTHER -> "predict"

\* C2: the target-type guard comes first in do_predict and do_transform;
\* do_predict is rejected iff the target type is Transform, do_transform iff it
\* is not; a rejection reads no request field, calls no predictor, and returns
\* 422 with a message naming the endpoint of the configured target type.
C2_GuardFirst ==
    endpoint \in {"do_predict", "do_transform"} =>
        /\ trace[1] = "guard"
        /\ endpoint = "do_predict" => (IsGuardRejection <=> target_type = "transform")
        /\ endpoint = "do_transform" => (IsGuardRejection <=> target_type # "transform")
        /\ IsGuardRejection =>
              /\ trace = <<"guard">>
              /\ ~PredictorInvoked
              /\ response.value.body.message[2] =
                    <<"This project has target type", target_type,
                      "use the endpoint", EndpointFor(target_type)>>

\* a well-formed transform request to an unstructured model was rejected
C2_Witness ==
    /\ endpoint = "do_transform"
    /\ target_type = "unstructured"
    /\ "X" \in DOMAIN request.files
    /\ IsGuardRejection
    /\ response.value.body.message[2][4] = "predictUnstructured"

----------------------------------------------------------------------------
(* C3, C4 *)

\* the results of the fetches the handler made: <<key, result>>
Fetches ==
    IF endpoint \in {"do_predict", "do_transform"}
    THEN {<<k, frame[k]>> : k \in {k \in {"X", "y"} : k \in DOMAIN frame /\ frame[k] # None}}
    ELSE {}

\* C3: _fetch_data_from_request(field) raises ValueError iff the request has no
\* file part named field and an empty raw body; otherwise it returns a triple
\* (bytes, mimetype, charset).
C3_FetchFailsIffNoInput ==
    \A f \in Fetches :
        /\ f[2].raised <=> NoInputFor(f[1])
        /\ f[2].raised => f[2].exc = "ValueError"
        /\ ~f[2].raised => Len(f[2].value) = 3

\* a fetch failed on a request that has a Content-Type header and other file
\* parts, but neither the part asked for nor a raw body
C3_Witness ==
    \E f \in Fetches :
        /\ f[2].raised
        /\ NoInputFor(f[1])
        /\ request.content_type # NoneStr
        /\ DOMAIN request.files # {}

\* the mimetype of a file name, by its extension
MimetypeOfExtension(filename) ==
    CASE filename = "data.csv" -> "text/csv"
      [] filename = "data.mtx" -> "text/mtx"
      [] filename = "data.arrow" -> "application/x.apache.arrow.stream"
      [] OTHER -> NoneStr

\* C4: with a file part named field, the fetch returns the part's bytes, the
\* mimetype of the file name's extension and no charset, whatever the raw body
\* and the Content-Type header are; the body and the header are used only when
\* there is no such part.
C4_FilePartWins ==
    \A f \in Fetches :
        /\ f[1] \in DOMAIN request.files =>
              /\ ~f[2].raised
              /\ f[2].value = <<request.files[f[1]].stream,
                                MimetypeOfExtension(request.files[f[1]].filename),
                                NoneStr>>
        /\ (f[1] \notin DOMAIN request.files /\ ~f[2].raised) =>
              /\ f[2].value[1] = request.data
              /\ <<f[2].value[2], f[2].value[3]>> =
                    _validate_content_type_header(request.content_type)

\* a file part was fetched from a request that also has a raw body and a
\* Content-Type header with another mimetype and a charset
C4_Witness ==
    \E f \in Fetches :
        /\ f[1] \in DOMAIN request.files
        /\ request.files[f[1]].filename = "data.mtx"
        /\ Len(request.data) > 0
        /\ Len(request.files[f[1]].stream) = 0
        /\ request.content_type = "text/csv; charset=utf-8"
        /\ f[2].value = <<request.files[f[1]].stream, "text/mtx", NoneStr>>

----------------------------------------------------------------------------
(* C5, C6, C7 *)

\* the transform path reached its encoding step
Encoded == endpoint = "do_transform" /\ "out_format" \in DOMAIN frame

\* the multipart fields of a transform response
OutFields == response.value.body.data

\* the encoding the client's flag selects for a dense result
DenseEncoding(client_wants_arrow) == IF client_wants_arrow THEN "arrow" ELSE "csv"

\* C5: in the transform path, sparse features are encoded as matrix-market with
\* format_tag "sparse" whatever client_wants_arrow is; dense features are encoded
\* as arrow with tag "arrow" iff client_wants_arrow, else as CSV with tag "csv";
\* a present target is encoded as arrow iff client_wants_arrow, else as CSV,
\* and never as matrix-market, even when it is sparse; an absent target has no
\* payload.
C5_EncodingTable ==
    Encoded =>
        LET features == frame.out_data
            target == frame.out_target
            wants_arrow == frame.use_arrow
            feature_part == OutFields["X.transformed"][2]
        IN  /\ IsResponse200
            /\ feature_part.of = features
            /\ features.type = "csr_matrix" =>
                  /\ feature_part.encoding = "mtx"
                  /\ OutFields["out.format"] = "sparse"
            /\ features.type # "csr_matrix" =>
                  /\ feature_part.encoding = DenseEncoding(wants_arrow)
                  /\ OutFields["out.format"] = DenseEncoding(wants_arrow)
            /\ target # None =>
                  /\ "y.transformed" \in DOMAIN OutFields
                  /\ OutFields["y.transformed"][2].encoding = DenseEncoding(wants_arrow)
                  /\ OutFields["y.transformed"][2].of = target
            /\ target = None => frame.target_payload = None

\* sparse features with a sparse target for a client that wants arrow: the
\* features went out as matrix-market and the target as arrow
C5_Witness ==
    /\ Encoded
    /\ frame.use_arrow
    /\ frame.out_data.type = "csr_matrix"
    /\ frame.out_target # None
    /\ frame.out_target.type = "csr_matrix"
    /\ OutFields["X.transformed"][2].encoding = "mtx"
    /\ OutFields["y.transformed"][2].encoding = "arrow"
    /\ OutFields["out.format"] = "sparse"

\* C6: in the transform path client_wants_arrow is true iff the request carries
\* an arrow_version field, whatever the value of the field: the handler gets to
\* its encoding step and takes the arrow branch exactly when the field is there.
C6_ArrowIffFieldPresent ==
    (endpoint = "do_transform" /\ target_type = "transform" /\ ~NoInputFor("X")
        /\ AsFlaskDelivers) =>
        /\ Encoded
        /\ frame.use_arrow <=> "arrow_version" \in DOMAIN request.files

\* C7: a status-200 transform response is a multipart body with the feature part
\* and an out.format field equal to the selected format_tag, one of csv, sparse,
\* arrow; it has a target part iff a target payload was produced, which happens
\* only when the request has a y file part and the predictor returned a target:
\* a request without y never yields a target part.
C7_MultipartParts ==
    (endpoint = "do_transform" /\ IsResponse200) =>
        /\ "X.transformed" \in DOMAIN OutFields
        /\ OutFields["X.transformed"][1] = "X.transformed"
        /\ OutFields["X.transformed"][3] = "application/octet-stream"
        /\ OutFields["out.format"] \in {"csv", "sparse", "arrow"}
        /\ OutFields["out.format"] = frame.out_format
        /\ "y.transformed" \in DOMAIN OutFields <=> frame.target_payload # None
        /\ "y.transformed" \in DOMAIN OutFields =>
              /\ OutFields["y.transformed"][2] = frame.target_payload
              /\ "y" \in DOMAIN request.files
              /\ predictor_ret.ret[2] # None
        /\ "y" \notin DOMAIN request.files => "y.transformed" \notin DOMAIN OutFields

\* a request without y whose predictor nevertheless returned a target: the
\* response has no target part
C7_Witness ==
    /\ endpoint = "do_transform"
    /\ IsResponse200
    /\ "y" \notin DOMAIN request.files
    /\ predictor_ret.ret[2] # None
    /\ DOMAIN OutFields = {"out.format", "X.transformed"}

----------------------------------------------------------------------------
(* C8, C9 *)

\* the predict path called the predictor of a model with a tabular target type
TabularPredicted ==
    /\ endpoint = "do_predict"
    /\ predictor_ret.called
    /\ target_type \notin {"transform", "unstructured"}
    /\ AsFlaskDelivers

\* the flat array of the sole column's values, in row order
FlatPredictions(df) == [i \in 1..Len(df.data) |-> df.data[i][1]]

\* one object per row, with the columns of the result
RowObjects(df) ==
    [i \in 1..Len(df.data) |->
        [c \in Range(df.columns) |->
            df.data[i][CHOOSE j \in 1..Len(df.columns) : df.columns[j] = c]]]

\* C8: for a single-column result, whatever its column is called, the predict
\* path emits {"predictions": [v1, v2, ...]} in row order; for a multi-column
\* result it emits {"predictions": [{col: v, ...}, ...]}, one object per row
\* with the columns of the result; neither fails.
C8_PredictionsJson ==
    TabularPredicted =>
        LET df == predictor_ret.ret
        IN  /\ Len(df.columns) = 1 =>
                  /\ IsResponse200
                  /\ response.value.body.data = [predictions |-> FlatPredictions(df)]
            /\ Len(df.columns) > 1 =>
                  /\ IsResponse200
                  /\ response.value.body.data = [predictions |-> RowObjects(df)]

\* C9: for every target type other than Transform, a predict request whose
\* input fetch succeeds is answered 200 with mimetype application/json and a
\* body that is a JSON object with the single key predictions.
C9_PredictIs200Json ==
    (endpoint = "do_predict" /\ target_type # "transform" /\ ~NoInputFor("X")
        /\ AsFlaskDelivers) =>
        /\ IsResponse200
        /\ response.value.body.mimetype = "application/json"
        /\ DOMAIN response.value.body.data = {"predictions"}

----------------------------------------------------------------------------
(* C10 *)

\* C10: do_predict_unstructured returns 200; it sets the Content-Type header iff
\* the outgoing resolver produced a mimetype, and the header ends in
\* "; charset=<value>" iff a mimetype and a charset were both resolved: a
\* charset resolved without a mimetype is not in the response.
C10_UnstructuredContentType ==
    endpoint = "do_predict_unstructured" =>
        LET mimetype == frame.response_mimetype
            charset == frame.response_charset
            resp == response.value.body
        IN  /\ IsResponse200
            /\ resp.data = frame.response_data
            /\ "Content-Type" \in resp.assigned <=> mimetype # NoneStr
            /\ (mimetype # NoneStr /\ charset # NoneStr) =>
                  resp.headers.ContentType = <<mimetype, "; charset=", charset>>
            /\ (mimetype # NoneStr /\ charset = NoneStr) =>
                  resp.headers.ContentType = <<mimetype>>
            /\ mimetype = NoneStr => resp.headers.ContentType = DefaultContentType

\* the predictor returned a charset without a mimetype: the handler left the
\* Content-Type header alone
C10_Witness ==
    /\ endpoint = "do_predict_unstructured"
    /\ predictor_ret.ret[2].mimetype = NoneStr
    /\ predictor_ret.ret[2].charset = "latin1"
    /\ IsResponse200
    /\ response.value.body.assigned = {}

====
